---------------------------- MODULE Spec2Model ----------------------------
(***************************************************************************)
(* A model of password_cracker.py: the candidate generators                *)
(* (candidate_variants, generate_from_pattern, generate_by_length,         *)
(* read_wordlist), the cap wrapper limited, the search loop of             *)
(* crack_target, the format testers behind try_password, and main.         *)
(*                                                                         *)
(* A Python str is a sequence of one-character strings.  Optional[x] is    *)
(* None == <<>> or Some(x) == <<x>>.  A lazy generator is its resumable    *)
(* state: itertools.product is the odometer of pool indices it keeps,      *)
(* read_wordlist the number of the last line read, limited the index of    *)
(* its enumerate.                                                          *)
(***************************************************************************)
EXTENDS Integers, Sequences, FiniteSets, TLC

VARIABLES
    args,               \* the argparse.Namespace handed to crack_target
    target,             \* the target file and its environment (see Envs)
    pc,                 \* position of the single thread of control
    candidate_streams,  \* crack_target's list of streams, in priority order
    si,                 \* index of the stream the outer for loop is in
    it,                 \* resumable state of the current stream's generators
    seen,               \* crack_target's dedup set
    attempted,          \* log_attempt's counter
    result,             \* how crack_target ended
    main_return,        \* main's return value, None while it has not returned
    output_file,        \* contents of args.output, None while not written
    tested,             \* history: every call of try_password, in order
    drawn,              \* history: candidates each source handed to the loop
    expanded            \* history: what a generator run on its own has yielded

vars == <<args, target, pc, candidate_streams, si, it, seen, attempted,
          result, main_return, output_file, tested, drawn, expanded>>

-----------------------------------------------------------------------------
(* Python values *)

None == <<>>
Some(x) == <<x>>
IsNone(o) == o = <<>>
Get(o) == o[1]

Range(s) == {s[i] : i \in 1..Len(s)}
Reverse(s) == [i \in 1..Len(s) |-> s[Len(s) + 1 - i]]
IndexOf(s, c) == CHOOSE i \in 1..Len(s) : s[i] = c
Min(a, b) == IF a <= b THEN a ELSE b
Max(a, b) == IF a >= b THEN a ELSE b

ascii_lowercase ==
    <<"a","b","c","d","e","f","g","h","i","j","k","l","m",
      "n","o","p","q","r","s","t","u","v","w","x","y","z">>
ascii_uppercase ==
    <<"A","B","C","D","E","F","G","H","I","J","K","L","M",
      "N","O","P","Q","R","S","T","U","V","W","X","Y","Z">>
digits == <<"0","1","2","3","4","5","6","7","8","9">>
ascii_letters == ascii_lowercase \o ascii_uppercase
whitespace == {" ", "\t"}

DEFAULT_CHARSET == ascii_letters \o digits

\* The code point of a character, for sorted(): the characters the model
\* uses outside letters and digits are listed with their ASCII codes.
Ord(c) ==
    CASE c \in Range(digits) -> 47 + IndexOf(digits, c)
      [] c \in Range(ascii_uppercase) -> 64 + IndexOf(ascii_uppercase, c)
      [] c \in Range(ascii_lowercase) -> 96 + IndexOf(ascii_lowercase, c)
      [] c = "\t" -> 9
      [] c = " " -> 32
      [] c = "!" -> 33
      [] c = "#" -> 35
      [] c = "*" -> 42
      [] c = "-" -> 45
      [] c = "?" -> 63

isalpha(c) == c \in Range(ascii_letters)
isdigit(c) == c \in Range(digits)
swapcase(c) ==
    IF c \in Range(ascii_lowercase) THEN ascii_uppercase[IndexOf(ascii_lowercase, c)]
    ELSE IF c \in Range(ascii_uppercase) THEN ascii_lowercase[IndexOf(ascii_uppercase, c)]
    ELSE c
int(c) == IndexOf(digits, c) - 1
str(n) == digits[n + 1]

RECURSIVE sorted(_)
sorted(S) ==
    IF S = {} THEN <<>>
    ELSE LET m == CHOOSE x \in S : \A y \in S : Ord(x) <= Ord(y)
         IN  <<m>> \o sorted(S \ {m})

\* str.strip(): leading and trailing whitespace removed.
strip(line) ==
    LET keep == {i \in 1..Len(line) : line[i] \notin whitespace}
    IN  IF keep = {} THEN <<>>
        ELSE LET lo == CHOOSE i \in keep : \A j \in keep : i <= j
                 hi == CHOOSE i \in keep : \A j \in keep : i >= j
             IN  SubSeq(line, lo, hi)

-----------------------------------------------------------------------------
(* itertools.product as a resumable iterator *)

\* State of one stream: the odometer of itertools.product (started, idx),
\* the last line read_wordlist consumed, and limited's enumerate index.
FreshIt == [started |-> FALSE, idx |-> <<>>, line |-> 0, index |-> 0]

Stop(g) == [tag |-> "stop", value |-> <<>>, it |-> g]
Raise(g) == [tag |-> "raise", value |-> <<>>, it |-> g]
Yield(v, g) == [tag |-> "yield", value |-> v, it |-> g]

Combo(pools, idx) == [i \in 1..Len(pools) |-> pools[i][idx[i]]]

\* next() on itertools.product(*pools): the first call yields the first
\* element of every pool (nothing when a pool is empty, the empty tuple
\* when there is no pool); a later call advances the rightmost index that
\* can advance and resets those to its right, and stops when none can.
ProductNext(pools, g) ==
    IF ~g.started
    THEN IF \E i \in 1..Len(pools) : Len(pools[i]) = 0
         THEN Stop([g EXCEPT !.started = TRUE])
         ELSE LET first == [i \in 1..Len(pools) |-> 1]
              IN  Yield(Combo(pools, first), [g EXCEPT !.started = TRUE, !.idx = first])
    ELSE LET can == {i \in 1..Len(pools) : g.idx[i] < Len(pools[i])}
         IN  IF can = {} \/ Len(g.idx) # Len(pools)
             THEN Stop(g)
             ELSE LET p == CHOOSE i \in can : \A j \in can : j <= i
                      nxt == [i \in 1..Len(pools) |->
                                 IF i < p THEN g.idx[i]
                                 ELSE IF i = p THEN g.idx[i] + 1 ELSE 1]
                  IN  Yield(Combo(pools, nxt), [g EXCEPT !.idx = nxt])

-----------------------------------------------------------------------------
(* The generators *)

substitutions(c) ==
    CASE c = "0" -> <<"o", "O">>
      [] c = "1" -> <<"l", "L", "I", "!">>
      [] c = "3" -> <<"e", "E">>
      [] c = "5" -> <<"s", "S">>
      [] c = "7" -> <<"t", "T">>
      [] c = "8" -> <<"B">>
      [] OTHER -> <<>>

options(c) ==
    {c}
    \cup (IF isalpha(c) THEN {swapcase(c)} ELSE {})
    \cup (IF isdigit(c) THEN {str((int(c) - 1) % 10), str((int(c) + 1) % 10)} ELSE {})
    \cup Range(substitutions(c))

\* candidate_variants: the pools handed to itertools.product.
candidate_variants(seed) == [i \in 1..Len(seed) |-> sorted(options(seed[i]))]

PATTERN_TOKENS == {"A", "a", "1", "0", "#", "?", "*"}
PATTERN_CHARSETS(c) ==
    CASE c = "A" -> ascii_uppercase
      [] c = "a" -> ascii_lowercase
      [] c = "1" -> digits
      [] c = "0" -> digits
      [] c = "#" -> digits
      [] c = "?" -> ascii_letters
      [] c = "*" -> DEFAULT_CHARSET

\* generate_from_pattern gone wrong: the order is ignored, no set reversed.
generate_from_pattern_asc_only(pattern, order) ==
    [i \in 1..Len(pattern) |->
        IF pattern[i] \notin PATTERN_TOKENS
        THEN <<pattern[i]>>
        ELSE PATTERN_CHARSETS(pattern[i])]

\* generate_from_pattern: char_sets, the pools handed to itertools.product.
generate_from_pattern(pattern, order) ==
    [i \in 1..Len(pattern) |->
        IF pattern[i] \notin PATTERN_TOKENS
        THEN <<pattern[i]>>
        ELSE IF order = "asc" THEN PATTERN_CHARSETS(pattern[i])
             ELSE Reverse(PATTERN_CHARSETS(pattern[i]))]

\* generate_by_length: itertools.product(charset, repeat=length), for a
\* length >= 0 (a negative repeat raises ValueError, see GenNext).
generate_by_length(length, charset) == [i \in 1..length |-> charset]

\* read_wordlist gone wrong: without "if word", a blank line is yielded.
read_wordlist_keeps_blank(lines, g) ==
    IF g.line >= Len(lines) THEN Stop(g)
    ELSE Yield(strip(lines[g.line + 1]), [g EXCEPT !.line = g.line + 1])

\* read_wordlist: next() reads lines until one is not blank once stripped.
read_wordlist(lines, g) ==
    LET rest == {j \in (g.line + 1)..Len(lines) : strip(lines[j]) # <<>>}
    IN  IF rest = {} THEN Stop([g EXCEPT !.line = Len(lines)])
        ELSE LET j == CHOOSE k \in rest : \A m \in rest : k <= m
             IN  Yield(strip(lines[j]), [g EXCEPT !.line = j])

\* crack_target's pattern_spec: None (here <<>>) unless a pattern, prefix
\* or suffix is truthy, else the three concatenated.
pattern_spec(a) ==
    IF a.pattern # <<>> \/ a.pattern_prefix # <<>> \/ a.pattern_suffix # <<>>
    THEN a.pattern_prefix \o a.pattern \o a.pattern_suffix
    ELSE <<>>

\* The pools a stream's generator hands to itertools.product when it first
\* runs; they depend on args alone, and the stream record carries them.
Pools(a, kind) ==
    CASE kind = "variants" -> candidate_variants(a.seed)
      [] kind = "pattern" -> generate_from_pattern(pattern_spec(a), a.pattern_order)
      [] kind = "length" -> generate_by_length(Get(a.length), a.charset)
      [] kind = "wordlist" -> <<>>

\* next() on the generator a stream wraps.
GenNext(a, s, g) ==
    CASE s.kind = "variants" -> ProductNext(s.pools, g)
      [] s.kind = "pattern" -> ProductNext(s.pools, g)
      [] s.kind = "length" ->
            IF Get(a.length) < 0 THEN Raise(g) ELSE ProductNext(s.pools, g)
      [] s.kind = "wordlist" -> read_wordlist(a.wordlist.lines, g)

\* limited gone wrong: "index > limit", one candidate too many.
limited_off_by_one(a, s, g) ==
    LET r == GenNext(a, s, g)
    IN  IF IsNone(s.limit) THEN r
        ELSE IF r.tag # "yield" THEN r
        ELSE IF g.index > Get(s.limit) THEN Stop(r.it)
        ELSE Yield(r.value, [r.it EXCEPT !.index = g.index + 1])

\* limited gone wrong: the limit is never looked at.
limited_ignores_cap(a, s, g) == GenNext(a, s, g)

\* limited: with a limit, enumerate pulls the next candidate first and
\* breaks when its index has reached the limit.
limited(a, s, g) ==
    LET r == GenNext(a, s, g)
    IN  IF IsNone(s.limit) THEN r
        ELSE IF r.tag # "yield" THEN r
        ELSE IF g.index >= Get(s.limit) THEN Stop(r.it)
        ELSE Yield(r.value, [r.it EXCEPT !.index = g.index + 1])

\* next() on a stream of candidate_streams.
StreamNext(a, s, g) == IF s.wrapped THEN limited(a, s, g) ELSE GenNext(a, s, g)

-----------------------------------------------------------------------------
(* The testers *)

lower(s) == [i \in 1..Len(s) |->
                IF s[i] \in Range(ascii_uppercase) THEN swapcase(s[i]) ELSE s[i]]

TARGET_TYPE_MAP(suffix) ==
    CASE suffix = <<".", "p", "d", "f">> -> "pdf"
      [] suffix = <<".", "z", "i", "p">> -> "zip"
      [] suffix = <<".", "r", "a", "r">> -> "rar"
      [] suffix = <<".", "7", "z">> -> "7z"
      [] suffix = <<".", "i", "s", "o">> -> "iso"
      [] OTHER -> "pdf"

SUPPORTED_TYPES == {"7z", "iso", "pdf", "rar", "zip"}

determine_target_type(t) ==
    IF ~IsNone(t.forced) THEN Get(t.forced) ELSE TARGET_TYPE_MAP(lower(t.suffix))

\* What the format layer does with one password.  t.cond is the state of
\* the target and of the tools: "ok"; "open" (a PDF that is not encrypted,
\* an archive with no member to read); "corrupt" (the library's bad-file
\* error, a failing exit status of the command); "lib_missing" (rarfile or
\* py7zr is None); "exec_missing" (RarCannotExec, FileNotFoundError from
\* running hdiutil or 7z).  t.accepts holds the passwords that decrypt it.
try_pdf_password(t, password) ==
    IF t.cond = "corrupt" THEN "false"
    ELSE IF t.cond = "open" THEN "true"
    ELSE IF password \in t.accepts THEN "true" ELSE "false"

try_zip_password(t, password) ==
    IF t.cond = "corrupt" THEN "false"
    ELSE IF t.cond = "open" THEN "true"
    ELSE IF password \in t.accepts THEN "true" ELSE "false"

\* try_rar_password gone wrong: RarCannotExec falls into "except Exception".
try_rar_password_swallows(t, password) ==
    IF t.cond = "lib_missing" THEN "raise"
    ELSE IF t.cond = "corrupt" THEN "false"
    ELSE IF t.cond = "exec_missing" THEN "false"
    ELSE IF t.cond = "open" THEN "true"
    ELSE IF password \in t.accepts THEN "true" ELSE "false"

try_rar_password(t, password) ==
    IF t.cond = "lib_missing" THEN "raise"
    ELSE IF t.cond = "corrupt" THEN "false"
    ELSE IF t.cond = "exec_missing" THEN "raise"
    ELSE IF t.cond = "open" THEN "true"
    ELSE IF password \in t.accepts THEN "true" ELSE "false"

try_7z_password(t, password) ==
    IF t.cond = "lib_missing" THEN "raise"
    ELSE IF t.cond = "corrupt" THEN "false"
    ELSE IF t.cond = "open" THEN "true"
    ELSE IF password \in t.accepts THEN "true" ELSE "false"

try_iso_hdiutil(t, password) ==
    IF t.cond = "exec_missing" THEN "raise"
    ELSE IF t.cond = "corrupt" THEN "false"
    ELSE IF password \in t.accepts THEN "true" ELSE "false"

try_iso_with_7z_cli(t, password) ==
    IF t.cond = "exec_missing" THEN "raise"
    ELSE IF t.cond = "corrupt" THEN "false"
    ELSE IF password \in t.accepts THEN "true" ELSE "false"

try_iso_password(t, password) ==
    IF t.system = "Darwin" THEN try_iso_hdiutil(t, password)
    ELSE try_iso_with_7z_cli(t, password)

try_password(t, password, target_type) ==
    CASE target_type = "pdf" -> try_pdf_password(t, password)
      [] target_type = "zip" -> try_zip_password(t, password)
      [] target_type = "rar" -> try_rar_password(t, password)
      [] target_type = "7z" -> try_7z_password(t, password)
      [] target_type = "iso" -> try_iso_password(t, password)
      [] OTHER -> "raise"

-----------------------------------------------------------------------------
(* crack_target *)

Stream(a, kind, wrapped, limit) ==
    [kind |-> kind, wrapped |-> wrapped, limit |-> limit, pools |-> Pools(a, kind)]

\* if args.seed: limited(candidate_variants(args.seed), args.seed_variants)
SeedStreams(a) ==
    IF a.seed # <<>> THEN <<Stream(a, "variants", TRUE, a.seed_variants)>> ELSE <<>>

\* The same gone wrong: "if args.length" in place of "elif".
PatternOrLengthStreams_both(a) ==
    (IF pattern_spec(a) # <<>> THEN <<Stream(a, "pattern", TRUE, a.max_candidates)>>
     ELSE <<>>)
    \o (IF ~IsNone(a.length) /\ Get(a.length) # 0
        THEN <<Stream(a, "length", TRUE, a.max_candidates)>>
        ELSE <<>>)

\* if pattern_spec: the pattern stream; elif args.length: the length stream.
PatternOrLengthStreams(a) ==
    IF pattern_spec(a) # <<>> THEN <<Stream(a, "pattern", TRUE, a.max_candidates)>>
    ELSE IF ~IsNone(a.length) /\ Get(a.length) # 0
         THEN <<Stream(a, "length", TRUE, a.max_candidates)>>
         ELSE <<>>

\* if args.wordlist and args.wordlist.exists(): read_wordlist, not wrapped.
WordlistStreams(a) ==
    IF a.wordlist.given /\ a.wordlist.exists
    THEN <<Stream(a, "wordlist", FALSE, None)>> ELSE <<>>

\* The list gone wrong: the word list is appended first.
BuildStreams_wordlist_first(a) ==
    WordlistStreams(a) \o SeedStreams(a) \o PatternOrLengthStreams(a)

\* candidate_streams, in the order crack_target appends to it.
BuildStreams(a) == SeedStreams(a) \o PatternOrLengthStreams(a) \o WordlistStreams(a)

Kinds == {"variants", "pattern", "length", "wordlist"}
Running == [kind |-> "running", password |-> <<>>]
Found(p) == [kind |-> "Found", password |-> p]
Exhausted == [kind |-> "Exhausted", password |-> <<>>]
Raised(e) == [kind |-> e, password |-> <<>>]

\* seen.add gone wrong: nothing is remembered.
seen_add_forgets(s, password) == s

\* seen.add(password)
seen_add(s, password) == s \cup {password}

\* log_attempt: the counter (the progress line it prints every 500
\* attempts is output only).
log_attempt(n) == n + 1

\* main: resolve_target fails, return 2.
MainTargetMissing ==
    /\ pc = "main"
    /\ ~target.exists
    /\ main_return' = Some(2)
    /\ pc' = "exit"
    /\ UNCHANGED <<args, target, candidate_streams, si, it, seen, attempted,
                   result, output_file, tested, drawn, expanded>>

\* main: the target resolves; crack_target is called.
MainStart ==
    /\ pc = "main"
    /\ target.exists
    /\ pc' = "crack"
    /\ UNCHANGED <<args, target, candidate_streams, si, it, seen, attempted,
                   result, main_return, output_file, tested, drawn, expanded>>

\* crack_target up to its loop: the streams are built (no generator has
\* run yet), seen is empty.
CrackBuild ==
    /\ pc = "crack"
    /\ candidate_streams' = BuildStreams(args)
    /\ seen' = {}
    /\ attempted' = 0
    /\ si' = 1
    /\ it' = FreshIt
    /\ pc' = "loop"
    /\ UNCHANGED <<args, target, result, main_return, output_file, tested, drawn, expanded>>

InLoop == pc = "loop" /\ si <= Len(candidate_streams)
Pulled == StreamNext(args, candidate_streams[si], it)
CurKind == candidate_streams[si].kind

\* The inner for loop ends: the stream is exhausted or its cap is reached.
StreamEnds ==
    /\ InLoop
    /\ Pulled.tag = "stop"
    /\ si' = si + 1
    /\ it' = FreshIt
    /\ UNCHANGED <<args, target, pc, candidate_streams, seen, attempted,
                   result, main_return, output_file, tested, drawn, expanded>>

\* The generator raises (itertools.product with a negative repeat): the
\* ValueError leaves crack_target and main.
GeneratorRaises ==
    /\ InLoop
    /\ Pulled.tag = "raise"
    /\ result' = Raised("ValueError")
    /\ pc' = "exit"
    /\ UNCHANGED <<args, target, candidate_streams, si, it, seen, attempted,
                   main_return, output_file, tested, drawn, expanded>>

\* if password in seen: continue
SkipSeen ==
    /\ InLoop
    /\ LET r == Pulled
       IN  /\ r.tag = "yield"
           /\ r.value \in seen
           /\ it' = r.it
    /\ drawn' = [drawn EXCEPT ![CurKind] = @ + 1]
    /\ UNCHANGED <<args, target, pc, candidate_streams, si, seen, attempted,
                   result, main_return, output_file, tested, expanded>>

\* A new candidate: seen.add, log_attempt, try_password; then what the
\* loop does with try_password's outcome.
Try(outcome, res) ==
    /\ InLoop
    /\ LET r == Pulled
       IN  /\ r.tag = "yield"
           /\ r.value \notin seen
           /\ try_password(target, r.value, determine_target_type(target)) = outcome
           /\ it' = r.it
           /\ seen' = seen_add(seen, r.value)
           /\ tested' = Append(tested, [password |-> r.value, source |-> CurKind])
           /\ result' = IF res = "Found" THEN Found(r.value)
                        ELSE IF res = "running" THEN result ELSE Raised(res)
    /\ drawn' = [drawn EXCEPT ![CurKind] = @ + 1]
    /\ attempted' = log_attempt(attempted)
    /\ UNCHANGED <<args, target, candidate_streams, si, main_return, output_file, expanded>>

\* try_password returned False: the loop goes on.
TryWrong ==
    /\ Try("false", "running")
    /\ pc' = "loop"

\* try_password returned True: return password.
TryFound ==
    /\ Try("true", "Found")
    /\ pc' = "report"

\* try_password raised RuntimeError: it leaves crack_target and main.
TryFatal ==
    /\ Try("raise", "RuntimeError")
    /\ pc' = "exit"

\* Every stream is done: return None.
ReturnNone ==
    /\ pc = "loop"
    /\ si > Len(candidate_streams)
    /\ result' = Exhausted
    /\ pc' = "report"
    /\ UNCHANGED <<args, target, candidate_streams, si, it, seen, attempted,
                   main_return, output_file, tested, drawn, expanded>>

\* main, if password: the output file is written, return 0.
MainSuccess ==
    /\ pc = "report"
    /\ result.kind = "Found" /\ result.password # <<>>
    /\ output_file' = Some(result.password)
    /\ main_return' = Some(0)
    /\ pc' = "exit"
    /\ UNCHANGED <<args, target, candidate_streams, si, it, seen, attempted,
                   result, tested, drawn, expanded>>

\* main, password is None or empty: return 1.
MainFailure ==
    /\ pc = "report"
    /\ ~(result.kind = "Found" /\ result.password # <<>>)
    /\ main_return' = Some(1)
    /\ pc' = "exit"
    /\ UNCHANGED <<args, target, candidate_streams, si, it, seen, attempted,
                   result, output_file, tested, drawn, expanded>>

Next ==
    \/ MainTargetMissing
    \/ MainStart
    \/ CrackBuild
    \/ StreamEnds
    \/ GeneratorRaises
    \/ SkipSeen
    \/ TryWrong
    \/ TryFound
    \/ TryFatal
    \/ ReturnNone
    \/ MainSuccess
    \/ MainFailure

-----------------------------------------------------------------------------
(* Inputs *)

MaxLimit == 2
DEFAULT_SEED_VARIANTS == 1000
DEFAULT_MAX_CANDIDATES == 250000

Limits == {None} \cup {Some(n) : n \in -1..MaxLimit}
Caps == {Some(n) : n \in -1..MaxLimit}

NoWordlist == [given |-> FALSE, exists |-> FALSE, lines |-> <<>>]
MissingWordlist == [given |-> TRUE, exists |-> FALSE, lines |-> <<>>]
Wordlist(lines) == [given |-> TRUE, exists |-> TRUE, lines |-> lines]

\* A word list with a blank line, a line of whitespace, padded words and a
\* word given twice.
Words1 == <<<<"x", "1">>, <<>>, <<" ", "x", "0", "\t">>, <<" ", "\t">>,
            <<"z", "z">>, <<"x", "1">>>>

HealthyTarget(acc) ==
    [exists |-> TRUE, suffix |-> <<".", "p", "d", "f">>, forced |-> None,
     system |-> "Linux", cond |-> "ok", accepts |-> acc]

\* Merging, dedup and caps: every source on and off, every cap, sources
\* that overlap; prefix, suffix and order at their defaults.
ArgsMerge ==
    {[seed |-> sd, seed_variants |-> sv, pattern |-> pt,
      pattern_prefix |-> <<>>, pattern_suffix |-> <<>>, pattern_order |-> "asc",
      length |-> lc.length, charset |-> lc.charset, wordlist |-> wl,
      max_candidates |-> mc] :
        sd \in {<<>>, <<"x", "1">>}, sv \in Limits, pt \in {<<>>, <<"x", "1">>},
        lc \in {[length |-> None, charset |-> DEFAULT_CHARSET],
                [length |-> Some(2), charset |-> <<"x", "1">>]},
        wl \in {NoWordlist, MissingWordlist, Wordlist(Words1)}, mc \in Limits}
AcceptsMerge == {{}, {<<"x", "1">>}, {<<"x", "0">>, <<"z", "z">>}}

\* Pattern and length configuration: pattern, prefix, suffix, order,
\* length and charset in every combination, valid or not.
ArgsPattern ==
    {[seed |-> sd, seed_variants |-> Some(DEFAULT_SEED_VARIANTS), pattern |-> pt,
      pattern_prefix |-> pp, pattern_suffix |-> ps, pattern_order |-> po,
      length |-> ln, charset |-> cs, wordlist |-> wl, max_candidates |-> mc] :
        sd \in {<<>>, <<"7">>}, pt \in {<<>>, <<"1">>},
        pp \in {<<>>, <<"A">>, <<"x">>}, ps \in {<<>>, <<"#">>},
        po \in {"asc", "desc"}, ln \in {None, Some(-1), Some(0), Some(2)},
        cs \in {<<>>, <<"b", "a">>, DEFAULT_CHARSET}, wl \in {NoWordlist},
        mc \in Caps}
AcceptsPattern == {{}, {<<"Z", "9">>, <<"b", "a">>}}

\* The target and the tools in every state, under one configuration.
Targets ==
    {t \in [exists : {TRUE}, 
            suffix : {<<".", "p", "d", "f">>, <<".", "Z", "I", "P">>, <<".", "r", "a", "r">>,
                      <<".", "7", "z">>, <<".", "i", "s", "o">>, <<".", "d", "m", "g">>},
            forced : {None, Some("iso")},
            system : {"Linux", "Darwin"},
            cond : {"ok", "open", "corrupt", "lib_missing", "exec_missing"},
            accepts : {{}, {<<"x", "2">>}, {<<"z", "z">>}}] :
        LET ty == determine_target_type(t)
        IN  /\ ~IsNone(t.forced) <=> t.suffix = <<".", "d", "m", "g">>
            /\ t.system = "Darwin" => ty = "iso"
            /\ t.cond = "open" => ty # "iso"
            /\ t.cond = "lib_missing" => ty \in {"rar", "7z"}
            /\ t.cond = "exec_missing" => ty \in {"rar", "iso"}}
MissingTarget == [HealthyTarget({}) EXCEPT !.exists = FALSE]
ArgsTarget ==
    {[seed |-> <<"x", "1">>, seed_variants |-> sv, pattern |-> <<>>,
      pattern_prefix |-> <<>>, pattern_suffix |-> <<>>, pattern_order |-> "asc",
      length |-> None, charset |-> DEFAULT_CHARSET, wordlist |-> Wordlist(Words1),
      max_candidates |-> Some(DEFAULT_MAX_CANDIDATES)] : sv \in {Some(0), Some(4)}}

Start(a, t) ==
    /\ args = a
    /\ target = t
    /\ pc = "main"
    /\ candidate_streams = <<>>
    /\ si = 1
    /\ it = FreshIt
    /\ seen = {}
    /\ attempted = 0
    /\ result = Running
    /\ main_return = None
    /\ output_file = None
    /\ tested = <<>>
    /\ drawn = [k \in Kinds |-> 0]
    /\ expanded = <<>>

Init ==
    \/ \E a \in ArgsMerge, acc \in AcceptsMerge : Start(a, HealthyTarget(acc))
    \/ \E a \in ArgsPattern, acc \in AcceptsPattern : Start(a, HealthyTarget(acc))
    \/ \E a \in ArgsTarget, t \in Targets \cup {MissingTarget} : Start(a, t)

Spec == Init /\ [][Next]_vars

-----------------------------------------------------------------------------
(* A generator run on its own: generate_from_pattern iterated to its end *)

ExpandPatterns ==
    {<<>>, <<"A", "1">>, <<"x", "#", "y">>, <<"0", "a">>, <<"?">>, <<"*">>,
     <<"-", "!">>, <<"#", "1">>}

ExpandInit ==
    \E p \in ExpandPatterns, o \in {"asc", "desc"} :
        /\ Start([seed |-> <<>>, seed_variants |-> Some(DEFAULT_SEED_VARIANTS),
                  pattern |-> p, pattern_prefix |-> <<>>, pattern_suffix |-> <<>>,
                  pattern_order |-> o, length |-> None, charset |-> DEFAULT_CHARSET,
                  wordlist |-> NoWordlist,
                  max_candidates |-> Some(DEFAULT_MAX_CANDIDATES)],
                 HealthyTarget({}))

\* next() on generate_from_pattern(args.pattern, order=args.pattern_order).
ExpandYield ==
    /\ pc = "main"
    /\ LET r == ProductNext(generate_from_pattern(args.pattern, args.pattern_order), it)
       IN  /\ r.tag = "yield"
           /\ it' = r.it
           /\ expanded' = Append(expanded, r.value)
    /\ UNCHANGED <<args, target, pc, candidate_streams, si, seen, attempted,
                   result, main_return, output_file, tested, drawn>>

\* The generator is exhausted.
ExpandStop ==
    /\ pc = "main"
    /\ ProductNext(generate_from_pattern(args.pattern, args.pattern_order), it).tag = "stop"
    /\ pc' = "expanded"
    /\ UNCHANGED <<args, target, candidate_streams, si, it, seen, attempted,
                   result, main_return, output_file, tested, drawn, expanded>>

ExpandNext == ExpandYield \/ ExpandStop

ExpandSpec == ExpandInit /\ [][ExpandNext]_vars

-----------------------------------------------------------------------------
(* What the claims are stated against: the streams in closed form *)

RECURSIVE SizeFrom(_, _)
\* The number of tuples over pools[i..].
SizeFrom(pools, i) ==
    IF i > Len(pools) THEN 1 ELSE Len(pools[i]) * SizeFrom(pools, i + 1)

\* The k-th tuple (from 0) of the Cartesian product in lexicographic order:
\* the digits of k in the mixed radix of the pool sizes.
NthTuple(pools, k) ==
    [i \in 1..Len(pools) |->
        pools[i][((k \div SizeFrom(pools, i + 1)) % Len(pools[i])) + 1]]

\* The set a pattern character stands for, in the order it is iterated.
TokenSet(c, order) ==
    IF c \in PATTERN_TOKENS
    THEN IF order = "asc" THEN PATTERN_CHARSETS(c) ELSE Reverse(PATTERN_CHARSETS(c))
    ELSE <<c>>

NonBlankWords(lines) ==
    SelectSeq([i \in 1..Len(lines) |-> strip(lines[i])], LAMBDA w : w # <<>>)

PatternSupplied(a) ==
    a.pattern # <<>> \/ a.pattern_prefix # <<>> \/ a.pattern_suffix # <<>>
LengthSupplied(a) == ~IsNone(a.length) /\ Get(a.length) # 0
SeedActive(a) == a.seed # <<>>
PatternActive(a) == PatternSupplied(a)
LengthActive(a) == ~PatternSupplied(a) /\ LengthSupplied(a)
WordlistActive(a) == a.wordlist.given /\ a.wordlist.exists
\* The length source cannot be generated at all (a negative length).
LengthFails(a) == LengthActive(a) /\ Get(a.length) < 0

\* How many candidates a cap lets through of a source of the given size.
CapCount(limit, size) ==
    IF IsNone(limit) THEN size ELSE Min(Max(Get(limit), 0), size)

RefPools(a, kind) ==
    CASE kind = "variants" -> [i \in 1..Len(a.seed) |-> sorted(options(a.seed[i]))]
      [] kind = "pattern" ->
            LET ps == a.pattern_prefix \o a.pattern \o a.pattern_suffix
            IN  [i \in 1..Len(ps) |-> TokenSet(ps[i], a.pattern_order)]
      [] kind = "length" -> [i \in 1..Get(a.length) |-> a.charset]

RefSize(a, kind) ==
    IF kind = "wordlist" THEN Len(NonBlankWords(a.wordlist.lines))
    ELSE SizeFrom(RefPools(a, kind), 1)

RefLimit(a, kind) ==
    CASE kind = "variants" -> a.seed_variants
      [] kind = "pattern" -> a.max_candidates
      [] kind = "length" -> a.max_candidates
      [] kind = "wordlist" -> None

\* One capped source, as a sequence.
RefCapped(a, kind) ==
    IF kind = "wordlist" THEN NonBlankWords(a.wordlist.lines)
    ELSE LET pools == RefPools(a, kind)
         IN  [k \in 1..CapCount(RefLimit(a, kind), SizeFrom(pools, 1)) |->
                 NthTuple(pools, k - 1)]

\* The capped sources concatenated in priority order, up to the source
\* that cannot be generated.
RefConcat(a) ==
    (IF SeedActive(a) THEN RefCapped(a, "variants") ELSE <<>>)
    \o (IF PatternActive(a) THEN RefCapped(a, "pattern")
        ELSE IF LengthActive(a) /\ ~LengthFails(a) THEN RefCapped(a, "length")
        ELSE <<>>)
    \o (IF WordlistActive(a) /\ ~LengthFails(a) THEN RefCapped(a, "wordlist") ELSE <<>>)

\* A sequence without its repeated elements, first occurrences kept.
Dedup(s) == SelectSeq([i \in 1..Len(s) |-> IF \E j \in 1..(i - 1) : s[j] = s[i]
                                           THEN <<FALSE>> ELSE <<TRUE, s[i]>>],
                      LAMBDA e : e[1])
RefMerged(a) == LET d == Dedup(RefConcat(a)) IN [i \in 1..Len(d) |-> d[i][2]]

Passwords(t) == [i \in 1..Len(t) |-> t[i].password]
Tester(c) == try_password(target, c, determine_target_type(target))
Ended == pc \in {"report", "exit"} /\ target.exists

-----------------------------------------------------------------------------
(* The claims *)

Accepted(m) == {k \in 1..Len(m) : Tester(m[k]) = "true"}
First(S) == CHOOSE k \in S : \A j \in S : k <= j

\* C1: the tester is handed the candidates of the merged stream (seed
\* variants, then pattern or length, then word list, each capped and in its
\* own order, repeats dropped) in order; crack_target returns Found(p)
\* exactly for the first p of that stream the tester accepts, and the
\* tester is not called after it.
C1_FirstAcceptedIsFound ==
    LET m == RefMerged(args)
        acc == Accepted(m)
    IN  /\ Len(tested) <= Len(m)
        /\ Passwords(tested) = SubSeq(m, 1, Len(tested))
        /\ result.kind = "Found" =>
              /\ acc # {}
              /\ result.password = m[First(acc)]
              /\ Len(tested) = First(acc)
        /\ (Ended /\ acc # {}) => result.kind = "Found"

\* The spec's scenario: the accepted candidate is the tenth seed variant
\* and the first word of the list, and is found in the seed-variant pass.
C1_Witness ==
    /\ pc = "exit"
    /\ result = Found(<<"x", "1">>)
    /\ Len(tested) = 10
    /\ tested[10].source = "variants"
    /\ WordlistActive(args)
    /\ NonBlankWords(args.wordlist.lines)[1] = <<"x", "1">>

NoRepeat(s) == \A i, j \in 1..Len(s) : i # j => s[i] # s[j]

\* C2: no candidate is handed to the tester twice in one run, whichever
\* sources produce it, and the dedup set only grows.
C2_TestedAtMostOnce ==
    /\ [](NoRepeat(Passwords(tested)) /\ attempted = Len(tested))
    /\ [][seen \subseteq seen']_vars

\* A seed variant that is also in the word list has been tested once and
\* skipped when the word list produced it.
C2_Witness ==
    /\ InLoop
    /\ CurKind = "wordlist"
    /\ drawn["wordlist"] >= 1
    /\ \E i \in 1..Len(tested) :
          /\ tested[i].source = "variants"
          /\ tested[i].password = NonBlankWords(args.wordlist.lines)[1]
    /\ \A i \in 1..Len(tested) : tested[i].source # "wordlist"

AllRejected(a) == \A c \in Range(RefConcat(a)) : Tester(c) = "false"

ActiveKinds(a) ==
    (IF SeedActive(a) THEN <<"variants">> ELSE <<>>)
    \o (IF PatternActive(a) THEN <<"pattern">>
        ELSE IF LengthActive(a) THEN <<"length">> ELSE <<>>)
    \o (IF WordlistActive(a) THEN <<"wordlist">> ELSE <<>>)

\* The active sources in order, and the pulls each allows: its capped
\* size and the pull that ends it.
Work(a) ==
    [kinds |-> ActiveKinds(a),
     pulls |-> [k \in Kinds |->
                   IF k \in Range(ActiveKinds(a))
                   THEN CapCount(RefLimit(a, k), RefSize(a, k)) + 1 ELSE 0]]

RECURSIVE PullsFrom(_, _)
PullsFrom(w, j) ==
    IF j > Len(w.kinds) THEN 0 ELSE w.pulls[w.kinds[j]] + PullsFrom(w, j + 1)

\* Steps the run can still take at position p, in source i, when d counts
\* what each source has handed out.
StepsLeft(w, p, i, d) ==
    CASE p = "main" -> PullsFrom(w, 1) + 4
      [] p = "crack" -> PullsFrom(w, 1) + 3
      [] p = "loop" ->
            PullsFrom(w, i) - (IF i <= Len(w.kinds) THEN d[w.kinds[i]] ELSE 0) + 2
      [] p = "report" -> 1
      [] OTHER -> 0

\* Some action's guard holds.
CanStep ==
    \/ pc \in {"main", "crack", "report"}
    \/ /\ pc = "loop"
       /\ \/ si > Len(candidate_streams)
          \/ LET r == Pulled
             IN  \/ r.tag \in {"stop", "raise"}
                 \/ /\ r.tag = "yield"
                    /\ \/ r.value \in seen
                       \/ Tester(r.value) \in {"true", "false", "raise"}

\* C3: when the tester rejects every candidate and every active source can
\* be generated, crack_target ends with None (Exhausted, main returns 1)
\* and the attempt count is the number of distinct candidates of the
\* concatenated capped sources; and the run does end: before main's exit a
\* step is always possible, and every step lowers StepsLeft, which is
\* never negative.
C3_ExhaustedCount ==
    /\ [](/\ (Ended /\ AllRejected(args) /\ ~LengthFails(args)) =>
                /\ result = Exhausted
                /\ attempted = Cardinality(Range(RefConcat(args)))
                /\ pc = "exit" => main_return = Some(1)
          /\ pc # "exit" => CanStep)
    /\ [][LET w == Work(args)
          IN  /\ args' = args
              /\ StepsLeft(w, pc', si', drawn') >= 0
              /\ StepsLeft(w, pc', si', drawn') < StepsLeft(w, pc, si, drawn)]_vars

\* An exhausted run over three sources that overlap.
C3_Witness ==
    /\ pc = "exit"
    /\ result = Exhausted
    /\ SeedActive(args) /\ PatternActive(args) /\ WordlistActive(args)
    /\ attempted = Cardinality(Range(RefConcat(args)))
    /\ attempted < Len(RefConcat(args))
    /\ attempted >= 5

ToolUnavailable(t) == t.cond \in {"lib_missing", "exec_missing"}
CorruptTarget(t) == t.cond = "corrupt"
Aborted ==
    /\ Len(tested) = 1
    /\ result = Raised("RuntimeError")
    /\ pc = "exit"
    /\ main_return = None
    /\ output_file = None

\* C4 as stated: an attempt that meets a missing tool or library, or a
\* corrupt target, aborts the search at that candidate with the error.
C4_FatalAborts ==
    (tested # <<>> /\ (ToolUnavailable(target) \/ CorruptTarget(target))) => Aborted

\* C4, amended: an attempt that meets a missing library or executable
\* aborts the search at that candidate with a RuntimeError that leaves
\* main (no False, no further candidate, neither Found nor Exhausted), and
\* nothing else raises it; a corrupt target is answered False like a wrong
\* password, and the search goes on to Exhausted over the whole merged
\* stream.
C4_ToolUnavailableAborts ==
    /\ (tested # <<>> /\ ToolUnavailable(target)) => Aborted
    /\ result.kind = "RuntimeError" => ToolUnavailable(target)
    /\ CorruptTarget(target) =>
          /\ result.kind \notin {"RuntimeError", "Found"}
          /\ \A i \in 1..Len(tested) : Tester(tested[i].password) = "false"
          /\ Ended => (result = Exhausted /\ Passwords(tested) = RefMerged(args))

\* unrar is not installed: the first candidate aborts a search that had
\* more candidates to try.
C4_Witness ==
    /\ determine_target_type(target) = "rar"
    /\ target.cond = "exec_missing"
    /\ Aborted
    /\ Len(RefMerged(args)) > 1

InvalidConfig(a) ==
    /\ ~IsNone(a.length)
    /\ \/ Get(a.length) < 0
       \/ Get(a.length) > 0 /\ a.charset = <<>>

\* C5 as stated, where the length strategy is the one in use (no pattern,
\* prefix or suffix): a negative length, or an empty charset with a length
\* above 0, is reported as an error before any candidate is generated or
\* tested, and the run never ends as an ordinary search.
C5_InvalidConfigRejected ==
    (InvalidConfig(args) /\ ~PatternSupplied(args)) =>
        /\ tested = <<>>
        /\ \A k \in Kinds : drawn[k] = 0
        /\ result.kind \notin {"Found", "Exhausted"}
        /\ main_return \notin {Some(0), Some(1)}

HasPrefix(c, p) == Len(c) >= Len(p) /\ SubSeq(c, 1, Len(p)) = p
HasSuffix(c, p) == Len(c) >= Len(p) /\ SubSeq(c, Len(c) - Len(p) + 1, Len(c)) = p

\* C6 as stated: every candidate of the pattern stream starts with the
\* prefix and ends with the suffix, whatever characters they hold.
C6_PrefixSuffixLiteral ==
    \A i \in 1..Len(tested) :
        tested[i].source = "pattern" =>
            /\ HasPrefix(tested[i].password, args.pattern_prefix)
            /\ HasSuffix(tested[i].password, args.pattern_suffix)

\* C7: a source hands the loop at most its own cap of candidates (the seed
\* variants seed_variants, the pattern or length source max_candidates),
\* repeats that the loop skips included; and a search that is exhausted
\* has taken from every active source exactly its capped size, whatever
\* the other sources gave: all of the word list, which has no cap.
C7_CapsPerSource ==
    /\ \A k \in Kinds :
          /\ ~IsNone(RefLimit(args, k)) => drawn[k] <= Max(Get(RefLimit(args, k)), 0)
          /\ k \notin Range(ActiveKinds(args)) => drawn[k] = 0
    /\ result = Exhausted =>
          \A k \in Range(ActiveKinds(args)) :
              drawn[k] = CapCount(RefLimit(args, k), RefSize(args, k))

\* Two capped sources and the word list, with repeats skipped: each source
\* has given its own count.
C7_Witness ==
    /\ result = Exhausted
    /\ args.seed_variants = Some(2) /\ drawn["variants"] = 2
    /\ args.max_candidates = Some(1) /\ drawn["pattern"] = 1
    /\ drawn["wordlist"] = 4
    /\ attempted = 5

HasStream(kind) == \E j \in 1..Len(candidate_streams) : candidate_streams[j].kind = kind
Built == pc \in {"loop", "report"} \/ (pc = "exit" /\ target.exists)

\* C8: with a pattern, prefix or suffix supplied the pattern stream is the
\* one in the list and nothing is ever drawn from the length stream, a
\* length given or not; the length stream is in the list only when none of
\* the three is supplied and a length is.
C8_PatternExcludesLength ==
    /\ PatternSupplied(args) =>
          /\ ~HasStream("length")
          /\ drawn["length"] = 0
          /\ \A i \in 1..Len(tested) : tested[i].source # "length"
          /\ Built => HasStream("pattern")
    /\ HasStream("length") => (~PatternSupplied(args) /\ ~IsNone(args.length))
    /\ ~(HasStream("length") /\ HasStream("pattern"))

\* A run given both a suffix and a length has drawn from the pattern.
C8_Witness ==
    /\ pc = "exit"
    /\ args.pattern = <<>> /\ args.pattern_suffix # <<>>
    /\ args.length = Some(2) /\ args.charset # <<>>
    /\ drawn["pattern"] = 2

TokenCount(c) == IF c \in PATTERN_TOKENS THEN Len(PATTERN_CHARSETS(c)) ELSE 1
RECURSIVE TokenProduct(_, _)
TokenProduct(p, i) == IF i > Len(p) THEN 1 ELSE TokenCount(p[i]) * TokenProduct(p, i + 1)

C10_NeverEmpty ==
    /\ \A i \in 1..Len(tested) : tested[i].password # <<>>
    /\ result.kind = "Found" => result.password # <<>>
    /\ ~IsNone(output_file) => output_file = Some(result.password)
    /\ pc = "exit" =>
          /\ main_return = Some(0) <=> result.kind = "Found"
          /\ ~IsNone(output_file) <=> result.kind = "Found"
          /\ main_return = Some(1) <=> result = Exhausted
          /\ result.kind = "Found" <=>
                \E i \in 1..Len(tested) : Tester(tested[i].password) = "true"

\* A word list with blank lines read to its third word, which is accepted
\* and written out.
C10_Witness ==
    /\ pc = "exit"
    /\ main_return = Some(0)
    /\ output_file = Some(<<"z", "z">>)
    /\ tested[Len(tested)].source = "wordlist"
    /\ \E j \in 1..Len(args.wordlist.lines) : strip(args.wordlist.lines[j]) = <<>>

=============================================================================
